---- MODULE Spec2Model ----
(***************************************************************************)
(* dynamodb-manager: fuzzy/tag discovery of DynamoDB tables                *)
(* (package search), the capacity-mode update (package update) and the     *)
(* repository client they call (package client).                           *)
(*                                                                         *)
(* A Go string is a sequence of characters; a character is a one-letter    *)
(* TLA+ string.  Utf8Len gives the number of bytes of its UTF-8 encoding,  *)
(* so that len(s) (bytes) and len([]rune(s)) (code points) are different   *)
(* operators.                                                              *)
(***************************************************************************)
EXTENDS Integers, Sequences, FiniteSets, TLC

VARIABLES
    str1, str2, ratio, similarityScore, scorePc, \* the similarity scorer
    tableNames, tableTags,                       \* the repository's tables
    tableFuzzyName, tagValue, fault,             \* one ExecuteSearch call
    matchingTables, searchPc,
    table,                                       \* the table ExecuteUpdate works on
    updateArgs, describeFails, mutateFails,      \* one ExecuteUpdate call
    tableBefore, calls, updateInputs, updateErr, updateBranch, updatePc,
    flags, cmdErr, cmdPc,                        \* the command line and checkCommand
    runAction, runErr, mainLogged, runPc         \* one run(dbmgr, action) from main

scoreVars  == <<str1, str2, ratio, similarityScore, scorePc>>
searchVars == <<tableNames, tableTags, tableFuzzyName, tagValue, fault,
                matchingTables, searchPc>>
updateVars == <<table, updateArgs, describeFails, mutateFails, tableBefore, calls,
                updateInputs, updateErr, updateBranch, updatePc>>
cmdVars    == <<flags, cmdErr, cmdPc>>
runVars    == <<runAction, runErr, mainLogged, runPc>>
vars == <<scoreVars, searchVars, updateVars, cmdVars, runVars>>

\* a Go slice: nil, or its elements (an empty slice need not be nil)
NilSlice  == [nil |-> TRUE, elems |-> <<>>]
Slice(s)  == [nil |-> FALSE, elems |-> s]
GoAppend(slice, x) == [nil |-> FALSE, elems |-> Append(slice.elems, x)]

(***************************************************************************)
(* Strings                                                                 *)
(***************************************************************************)
Max(a, b) == IF a > b THEN a ELSE b
Min(a, b) == IF a < b THEN a ELSE b

\* bytes of the UTF-8 encoding of one character
Utf8Len(c) == IF c = "é" THEN 2 ELSE 1

\* len(s) of a Go string: its length in bytes
RECURSIVE GoLen(_)
GoLen(s) == IF s = <<>> THEN 0 ELSE Utf8Len(Head(s)) + GoLen(Tail(s))

\* len([]rune(s)): its length in code points
RuneLen(s) == Len(s)

LowerChar(c) == CASE c = "O" -> "o"
                  [] c = "A" -> "a"
                  [] OTHER   -> c

\* strings.ToLower
ToLower(s) == [i \in 1..Len(s) |-> LowerChar(s[i])]

\* strings.Contains(s, substr)
Contains(s, substr) ==
    \E i \in 1..(Len(s) - Len(substr) + 1) :
        SubSeq(s, i, i + Len(substr) - 1) = substr

\* integer division of Go: truncated toward zero
GoDiv(a, b) == IF a >= 0 THEN a \div b ELSE -((-a) \div b)

(***************************************************************************)
(* The similarity scorer                                                   *)
(***************************************************************************)
FuzzyRatio == 80

\* levenshtein.DefaultOptions of github.com/texttheater/golang-levenshtein:
\* a substitution costs as much as a deletion followed by an insertion
DefaultOptions == [InsCost |-> 1, DelCost |-> 1, SubCost |-> 2]

\* one row of the distance matrix: row i from row i-1, for source rune c;
\* acc holds the cells of row i filled so far (cell 0 first)
RECURSIVE LevRow(_, _, _, _, _)
LevRow(prev, c, target, op, acc) ==
    LET j == Len(acc) IN
    IF j > Len(target) THEN acc
    ELSE LET del == prev[j + 1] + op.DelCost
             mat == prev[j] + (IF c = target[j] THEN 0 ELSE op.SubCost)
             ins == acc[j] + op.InsCost
         IN  LevRow(prev, c, target, op, Append(acc, Min(del, Min(mat, ins))))

RECURSIVE LevRows(_, _, _, _)
LevRows(prev, source, target, op) ==
    IF source = <<>> THEN prev
    ELSE LevRows(LevRow(prev, Head(source), target, op, <<prev[1] + op.DelCost>>),
                 Tail(source), target, op)

\* levenshtein.DistanceForStrings(source, target, op): the last cell of the matrix
DistanceForStrings(source, target, op) ==
    LET row0 == [j \in 1..(Len(target) + 1) |-> (j - 1) * op.InsCost]
    IN  LevRows(row0, source, target, op)[Len(target) + 1]

NormalizeRatio(r) == IF r < 0 THEN 0 ELSE IF r > 100 THEN 100 ELSE r

FuzzyMatchRatio(s1, s2) ==
    LET distance == DistanceForStrings(s1, s2, DefaultOptions)
        maxLen   == Max(GoLen(s1), GoLen(s2))
    IN  IF maxLen = 0 THEN 100
        ELSE GoDiv((maxLen - distance) * 100, maxLen)

(***************************************************************************)
(* The repository seen by discovery: the listed tables and their tags      *)
(***************************************************************************)
MaxTables == 2
PageSize  == 1

\* table names and search terms, as Go strings
NameOrder    == <<"o", "r", "d", "e", "r">>
NameOrders   == <<"o", "r", "d", "e", "r", "s">>
NameOrdersUp == <<"O", "r", "d", "e", "r", "s">>
NameUsers    == <<"u", "s", "e", "r", "s">>
EmptyString  == <<>>

TableUniverse == {NameOrder, NameOrders, NameOrdersUp, NameUsers}
Patterns      == {EmptyString, NameOrder, NameOrders}
TagValues     == {"", "prod", "dev"}
TagLists      == { <<>>,
                   <<[Key |-> "env", Value |-> "prod"], [Key |-> "stage", Value |-> "prod"]>>,
                   <<[Key |-> "prod", Value |-> "dev"]>> }

Range(s) == {s[i] : i \in 1..Len(s)}

\* the listings: sequences of distinct table names
Listings == UNION { {s \in [1..n -> TableUniverse] :
                        \A i, j \in 1..n : i # j => s[i] # s[j]} : n \in 0..MaxTables }

\* the paginator always fetches a first page, also of an empty listing
NumPages(names) == Max(1, (Len(names) + PageSize - 1) \div PageSize)

\* client.GetTableList: NextPage fails at page failAt (0: never); the pages
\* fetched before are returned with the error.  A nil and an empty slice are
\* both <<>> here: the callers only range over the names.
GetTableList(names, failAt) ==
    IF failAt = 0
    THEN [names |-> names, err |-> FALSE]
    ELSE [names |-> SubSeq(names, 1, Min(Len(names), (failAt - 1) * PageSize)),
          err   |-> TRUE]

\* client.GetTableArn: DescribeTable fails for the names in arnFail
TableArn(name) == <<"arn", name>>
GetTableArn(name, arnFail) ==
    IF name \in arnFail THEN [arn |-> <<>>, err |-> TRUE]
                        ELSE [arn |-> TableArn(name), err |-> FALSE]

\* client.GetTableTags: ListTagsOfResource fails for the tables in tagFail
GetTableTags(arn, tags, tagFail) ==
    IF arn[2] \in tagFail THEN [tags |-> <<>>, err |-> TRUE]
                          ELSE [tags |-> tags[arn[2]], err |-> FALSE]

Entry(name, arn) == [Name |-> name, ARN |-> arn]

(***************************************************************************)
(* Discovery                                                               *)
(***************************************************************************)
\* a name test that scores the strings as given, without lower-casing them
FuzzyNamePasses_CaseSensitive(fuzzyName, tableName) ==
    IF ~Contains(tableName, fuzzyName)
    THEN ~(NormalizeRatio(FuzzyMatchRatio(fuzzyName, tableName)) < FuzzyRatio)
    ELSE TRUE

\* a name test that also lets through a table name holding the characters of
\* the search term in order, with gaps (the matching of a fuzzy finder)
RECURSIVE InOrder(_, _)
InOrder(s, sub) ==
    IF sub = <<>> THEN TRUE
    ELSE IF s = <<>> THEN FALSE
    ELSE IF Head(s) = Head(sub) THEN InOrder(Tail(s), Tail(sub))
    ELSE InOrder(Tail(s), sub)

FuzzyNamePasses_InOrder(fuzzyName, tableName) ==
    IF ~InOrder(tableName, fuzzyName)
    THEN LET fuzzyRatio == FuzzyMatchRatio(ToLower(fuzzyName), ToLower(tableName))
         IN  ~(NormalizeRatio(fuzzyRatio) < FuzzyRatio)
    ELSE TRUE

\* the name test of the loop of searchTablesByFuzzyName: FALSE is `continue`
FuzzyNamePasses(fuzzyName, tableName) ==
    IF ~Contains(tableName, fuzzyName)
    THEN LET fuzzyRatio == FuzzyMatchRatio(ToLower(fuzzyName), ToLower(tableName))
         IN  ~(NormalizeRatio(fuzzyRatio) < FuzzyRatio)
    ELSE TRUE

\* the loop of searchTablesByFuzzyName over the rest of the table list
RECURSIVE FuzzyLoop(_, _, _, _)
FuzzyLoop(rest, fuzzyName, arnFail, matching) ==
    IF rest = <<>> THEN matching
    ELSE LET tableName == Head(rest)
             got == GetTableArn(tableName, arnFail)
         IN  IF ~FuzzyNamePasses(fuzzyName, tableName)
             THEN FuzzyLoop(Tail(rest), fuzzyName, arnFail, matching)
             ELSE IF got.err
             THEN FuzzyLoop(Tail(rest), fuzzyName, arnFail, matching)
             ELSE FuzzyLoop(Tail(rest), fuzzyName, arnFail,
                            GoAppend(matching, Entry(tableName, got.arn)))

searchTablesByFuzzyName(names, fuzzyName, f) ==
    LET tableList == GetTableList(names, f.nameListFailAt)
    IN  IF tableList.err THEN NilSlice
        ELSE FuzzyLoop(tableList.names, fuzzyName, f.arnFailName, Slice(<<>>))

\* an inner loop without the break: one entry for every matching tag
RECURSIVE CheckTags_NoBreak(_, _, _, _)
CheckTags_NoBreak(tags, value, entry, matching) ==
    IF tags = <<>> THEN matching
    ELSE IF Head(tags).Value = value
    THEN CheckTags_NoBreak(Tail(tags), value, entry, GoAppend(matching, entry))
    ELSE CheckTags_NoBreak(Tail(tags), value, entry, matching)

\* the inner loop over the rest of the tags of one table: the table's entry
\* is appended at the first tag whose value matches, and the loop left
RECURSIVE CheckTags(_, _, _, _)
CheckTags(tags, value, entry, matching) ==
    IF tags = <<>> THEN matching
    ELSE IF Head(tags).Value = value THEN GoAppend(matching, entry)
    ELSE CheckTags(Tail(tags), value, entry, matching)

\* the loop of searchTablesByTagValue over the rest of tableListTag
RECURSIVE TagLoop(_, _, _, _, _)
TagLoop(rest, value, tags, f, matching) ==
    IF rest = <<>> THEN matching
    ELSE LET tableName == Head(rest)
             got == GetTableArn(tableName, f.arnFailTag)
             tg  == GetTableTags(got.arn, tags, f.tagFail)
         IN  IF got.err THEN TagLoop(Tail(rest), value, tags, f, matching)
             ELSE IF tg.err THEN TagLoop(Tail(rest), value, tags, f, matching)
             ELSE TagLoop(Tail(rest), value, tags, f,
                          CheckTags(tg.tags, value, Entry(tableName, got.arn), matching))

\* tableList is nil (list the tables here) or the names to restrict to
searchTablesByTagValue(names, tags, value, tableList, f) ==
    IF ~tableList.nil
    THEN TagLoop(tableList.elems, value, tags, f, NilSlice)
    ELSE LET tableListTag == GetTableList(names, f.tagListFailAt)
         IN  IF tableListTag.err THEN NilSlice
             ELSE TagLoop(tableListTag.names, value, tags, f, NilSlice)

\* the names of the entries, appended to a nil slice (ExecuteSearch, lines 132-138)
RECURSIVE EntryNames(_, _)
EntryNames(entries, tableList) ==
    IF entries = <<>> THEN tableList
    ELSE EntryNames(Tail(entries), GoAppend(tableList, Head(entries).Name))

ExecuteSearch(names, tags, fuzzyName, value, f) ==
    IF fuzzyName # EmptyString /\ value # ""
    THEN LET fuzzyMatchingTables == searchTablesByFuzzyName(names, fuzzyName, f)
         IN  searchTablesByTagValue(names, tags, value,
                                    EntryNames(fuzzyMatchingTables.elems, NilSlice), f)
    ELSE IF fuzzyName # EmptyString
    THEN searchTablesByFuzzyName(names, fuzzyName, f)
    ELSE IF value # ""
    THEN searchTablesByTagValue(names, tags, value, NilSlice, f)
    ELSE NilSlice

(***************************************************************************)
(* Numbers as strings                                                      *)
(***************************************************************************)
DigitChars == <<"0", "1", "2", "3", "4", "5", "6", "7", "8", "9">>
IsDigit(c)  == \E d \in 1..10 : DigitChars[d] = c
DigitVal(c) == (CHOOSE d \in 1..10 : DigitChars[d] = c) - 1

RECURSIVE ParseDigits(_, _)
ParseDigits(s, acc) ==
    IF s = <<>> THEN acc ELSE ParseDigits(Tail(s), acc * 10 + DigitVal(Head(s)))

\* strconv.ParseInt(s, 10, 64): an optional sign, then decimal digits
ParseInt(s) ==
    LET signed == s # <<>> /\ Head(s) \in {"+", "-"}
        body   == IF signed THEN Tail(s) ELSE s
    IN  IF body = <<>> \/ \E i \in 1..Len(body) : ~IsDigit(body[i])
        THEN [val |-> 0, err |-> TRUE]
        ELSE [val |-> IF signed /\ Head(s) = "-" THEN -ParseDigits(body, 0)
                                                 ELSE ParseDigits(body, 0),
              err |-> FALSE]

RECURSIVE FormatNat(_)
FormatNat(n) ==
    IF n < 10 THEN <<DigitChars[n + 1]>>
    ELSE Append(FormatNat(n \div 10), DigitChars[(n % 10) + 1])

\* fmt.Sprintf("%d", n)
FormatInt(n) == IF n < 0 THEN <<"-">> \o FormatNat(-n) ELSE FormatNat(n)

(***************************************************************************)
(* The repository seen by the update: one table and its capacity           *)
(***************************************************************************)
DefaultRcu == 5
DefaultWcu == 5

Provisioned   == "PROVISIONED"
PayPerRequest == "PAY_PER_REQUEST"

\* the capacity units a table starts with, and the --rcu/--wcu arguments
UnitValues == {5, 10}
ParamStrs  == {<<>>, <<"5">>, <<"0", "5">>, <<"1", "0">>}

\* A table: its billing mode, its units (0 under PAY_PER_REQUEST) and whether
\* DescribeTable returns a BillingModeSummary for it: the service leaves it
\* out for a table that has been PROVISIONED since its creation.
Tables ==
    { [mode |-> Provisioned, rcu |-> r, wcu |-> w, summary |-> sm] :
          r \in UnitValues, w \in UnitValues, sm \in BOOLEAN }
    \cup { [mode |-> PayPerRequest, rcu |-> 0, wcu |-> 0, summary |-> TRUE] }

\* DynamoDBClient.UpdateTable: the call fails when the environment makes it
\* fail and when the service refuses the throughput (less than 1 unit);
\* otherwise the table takes the input's billing mode and throughput.
UpdateTable(tbl, input, fails) ==
    IF fails THEN [table |-> tbl, err |-> TRUE]
    ELSE IF input.BillingMode = PayPerRequest
    THEN [table |-> [mode |-> PayPerRequest, rcu |-> 0, wcu |-> 0, summary |-> TRUE],
          err   |-> FALSE]
    ELSE IF input.ReadCapacityUnits < 1 \/ input.WriteCapacityUnits < 1
    THEN [table |-> tbl, err |-> TRUE]
    ELSE [table |-> [mode    |-> Provisioned,
                     rcu     |-> input.ReadCapacityUnits,
                     wcu     |-> input.WriteCapacityUnits,
                     summary |-> IF input.BillingMode = Provisioned THEN TRUE
                                 ELSE tbl.summary],
          err   |-> FALSE]

\* a describe that never reads the BillingModeSummary
GetCurrentBillingMode_NoSummary(tbl, fails) ==
    [billingMode |-> "", rcu |-> <<>>, wcu |-> <<>>, err |-> fails]

\* client.GetCurrentBillingMode
GetCurrentBillingMode(tbl, fails) ==
    IF fails THEN [billingMode |-> "", rcu |-> <<>>, wcu |-> <<>>, err |-> TRUE]
    ELSE LET billingMode == IF tbl.summary THEN tbl.mode ELSE ""
         IN  [billingMode |-> billingMode,
              rcu |-> IF billingMode = Provisioned THEN FormatInt(tbl.rcu) ELSE <<>>,
              wcu |-> IF billingMode = Provisioned THEN FormatInt(tbl.wcu) ELSE <<>>,
              err |-> FALSE]

\* the UpdateTableInput client.UpdateProvisionedCapacity builds
ProvisionedInput(switchToProvisioned, rcuStr, wcuStr) ==
    LET rcuVal == IF rcuStr # <<>> THEN ParseInt(rcuStr).val ELSE 0
        wcuVal == IF wcuStr # <<>> THEN ParseInt(wcuStr).val ELSE 0
    IN  IF switchToProvisioned
        THEN [BillingMode        |-> Provisioned,
              ReadCapacityUnits  |-> IF rcuStr = <<>> THEN DefaultRcu ELSE rcuVal,
              WriteCapacityUnits |-> IF wcuStr = <<>> THEN DefaultWcu ELSE wcuVal]
        ELSE [BillingMode        |-> "",
              ReadCapacityUnits  |-> rcuVal,
              WriteCapacityUnits |-> wcuVal]

\* How a call of ExecuteUpdate ends: the repository calls made, the
\* UpdateTableInputs sent, the error returned ("" is nil), the table
\* afterwards, and the return statement reached (branch, set by ExecuteUpdate).
Outcome(callSeq, inputs, err, tbl) ==
    [calls |-> callSeq, inputs |-> inputs, err |-> err, table |-> tbl, branch |-> ""]

At(branch, outcome) == [outcome EXCEPT !.branch = branch]

\* an update of the capacity that reports success whatever UpdateTable returns
UpdateProvisionedCapacity_ErrorDropped(callSeq, tbl, switchToProvisioned, rcuStr, wcuStr, fails) ==
    LET input == ProvisionedInput(switchToProvisioned, rcuStr, wcuStr)
        done  == UpdateTable(tbl, input, fails)
    IN  Outcome(Append(callSeq, "UpdateProvisionedCapacity"), <<input>>, "", done.table)

\* client.UpdateProvisionedCapacity, called after the calls in callSeq
UpdateProvisionedCapacity(callSeq, tbl, switchToProvisioned, rcuStr, wcuStr, fails) ==
    LET input == ProvisionedInput(switchToProvisioned, rcuStr, wcuStr)
        done  == UpdateTable(tbl, input, fails)
    IN  Outcome(Append(callSeq, "UpdateProvisionedCapacity"), <<input>>,
                IF done.err THEN "UpdateTable failed" ELSE "", done.table)

\* a switch that tries UpdateTable a second time when the first attempt fails
SwitchToOnDemandCapacity_Retry(callSeq, tbl, fails) ==
    LET input == [BillingMode |-> PayPerRequest,
                  ReadCapacityUnits |-> 0, WriteCapacityUnits |-> 0]
        done  == UpdateTable(tbl, input, fails)
    IN  IF done.err
        THEN Outcome(callSeq \o <<"SwitchToOnDemandCapacity", "SwitchToOnDemandCapacity">>,
                     <<input, input>>, "UpdateTable failed", done.table)
        ELSE Outcome(Append(callSeq, "SwitchToOnDemandCapacity"), <<input>>, "", done.table)

\* client.SwitchToOnDemandCapacity, called after the calls in callSeq
SwitchToOnDemandCapacity(callSeq, tbl, fails) ==
    LET input == [BillingMode |-> PayPerRequest,
                  ReadCapacityUnits |-> 0, WriteCapacityUnits |-> 0]
        done  == UpdateTable(tbl, input, fails)
    IN  Outcome(Append(callSeq, "SwitchToOnDemandCapacity"), <<input>>,
                IF done.err THEN "UpdateTable failed" ELSE "", done.table)

FailedToUpdate == "Failed to update the table!"

\* update.ExecuteUpdate: a is the record of its arguments
ExecuteUpdate(tbl, a, dFails, mFails) ==
    LET cur    == GetCurrentBillingMode(tbl, dFails)
        called == <<"GetCurrentBillingMode">>
    IN  IF cur.err THEN At("describe failed", Outcome(called, <<>>, FailedToUpdate, tbl))
        ELSE IF a.switchToOnDemand
        THEN IF cur.billingMode # PayPerRequest
             THEN At("switch to on-demand", SwitchToOnDemandCapacity(called, tbl, mFails))
             ELSE At("already on-demand", Outcome(called, <<>>, "", tbl))
        ELSE IF cur.billingMode # Provisioned /\ ~a.switchToProvisioned
        THEN At("not provisioned", Outcome(called, <<>>, FailedToUpdate, tbl))
        ELSE IF a.paramRcu = <<>> /\ a.paramWcu = <<>>
        THEN At("no units", UpdateProvisionedCapacity(called, tbl, a.switchToProvisioned,
                                                      <<>>, <<>>, mFails))
        ELSE LET paramRcu == IF a.paramRcu = <<>> THEN FormatInt(DefaultRcu)
                                                  ELSE a.paramRcu
                 paramWcu == IF a.paramWcu = <<>> THEN FormatInt(DefaultWcu)
                                                  ELSE a.paramWcu
             IN  IF paramRcu # cur.rcu \/ paramWcu # cur.wcu
                 THEN At("units", UpdateProvisionedCapacity(called, tbl,
                                     a.switchToProvisioned, paramRcu, paramWcu, mFails))
                 ELSE At("same units", Outcome(called, <<>>, "", tbl))

(***************************************************************************)
(* What the environment may do to one ExecuteSearch call                   *)
(***************************************************************************)
\* nameListFailAt, tagListFailAt: the page at which the listing of the name
\* stage, of the tag stage, fails (0: it does not); arnFailName, arnFailTag:
\* the tables whose DescribeTable fails in the name stage, in the tag stage;
\* tagFail: the tables whose ListTagsOfResource fails
NoFault == [nameListFailAt |-> 0, tagListFailAt |-> 0,
            arnFailName |-> {}, arnFailTag |-> {}, tagFail |-> {}]

\* the faults of the name stage: a failure is chosen only for a call that is made
NameFaults(names, fuzzyName) ==
    IF fuzzyName = EmptyString THEN {NoFault}
    ELSE {[NoFault EXCEPT !.nameListFailAt = k] : k \in 1..NumPages(names)}
         \cup {[NoFault EXCEPT !.arnFailName = a] :
                  a \in SUBSET {n \in Range(names) : FuzzyNamePasses(fuzzyName, n)}}

Faults(names, fuzzyName, value) ==
    UNION { LET tableList == IF fuzzyName = EmptyString THEN NilSlice
                             ELSE EntryNames(searchTablesByFuzzyName(names, fuzzyName, f1).elems,
                                             NilSlice)
                cand == IF tableList.nil THEN Range(names) ELSE Range(tableList.elems)
            IN  IF value = "" THEN {f1}
                ELSE {[f1 EXCEPT !.arnFailTag = x[1], !.tagFail = x[2]] :
                         x \in {y \in (SUBSET cand) \X (SUBSET cand) : y[1] \cap y[2] = {}}}
                     \cup (IF tableList.nil
                           THEN {[f1 EXCEPT !.tagListFailAt = k] : k \in 1..NumPages(names)}
                           ELSE {})
          : f1 \in NameFaults(names, fuzzyName) }

(***************************************************************************)
(* State machine                                                           *)
(***************************************************************************)
MaxStrLen == 3
ScoreAlphabet == {"a", "b", "é"}
ScoreStrings == UNION {[1..n -> ScoreAlphabet] : n \in 0..MaxStrLen}

NoArgs == [paramRcu |-> <<>>, paramWcu |-> <<>>,
           switchToOnDemand |-> FALSE, switchToProvisioned |-> FALSE]

IdleScore ==
    /\ str1 = <<>> /\ str2 = <<>>
    /\ ratio = 0 /\ similarityScore = 0 /\ scorePc = "idle"

IdleSearch ==
    /\ tableNames = <<>> /\ tableTags = <<>>
    /\ tableFuzzyName = EmptyString /\ tagValue = "" /\ fault = NoFault
    /\ matchingTables = NilSlice /\ searchPc = "idle"

IdleUpdate ==
    /\ table = [mode |-> PayPerRequest, rcu |-> 0, wcu |-> 0, summary |-> TRUE]
    /\ updateArgs = NoArgs /\ describeFails = FALSE /\ mutateFails = FALSE
    /\ tableBefore = table
    /\ calls = <<>> /\ updateInputs = <<>> /\ updateErr = "" /\ updateBranch = ""
    /\ updatePc = "idle"

NoFlags == [searchTerm |-> EmptyString, tagValue |-> "", updateTable |-> "",
            rcuValueStr |-> <<>>, wcuValueStr |-> <<>>,
            provisioned |-> FALSE, onDemand |-> FALSE]

IdleCmd == flags = NoFlags /\ cmdErr = "" /\ cmdPc = "idle"

IdleRun == runAction = "" /\ runErr = "" /\ mainLogged = FALSE /\ runPc = "idle"

\* the scorer, on any two strings
InitScore ==
    /\ str1 \in ScoreStrings /\ str2 \in ScoreStrings
    /\ ratio = 0 /\ similarityScore = 0 /\ scorePc = "start"
    /\ IdleSearch /\ IdleUpdate /\ IdleCmd /\ IdleRun

FuzzyMatchRatioCall ==
    /\ scorePc = "start"
    /\ ratio' = FuzzyMatchRatio(str1, str2)
    /\ scorePc' = "ratio"
    /\ UNCHANGED <<str1, str2, similarityScore, searchVars, updateVars, cmdVars, runVars>>

NormalizeRatioCall ==
    /\ scorePc = "ratio"
    /\ similarityScore' = NormalizeRatio(ratio)
    /\ scorePc' = "normalized"
    /\ UNCHANGED <<str1, str2, ratio, searchVars, updateVars, cmdVars, runVars>>

NextScore == FuzzyMatchRatioCall \/ NormalizeRatioCall
SpecScore == InitScore /\ [][NextScore]_vars

\* discovery, over any listing of tagged tables
InitSearch ==
    /\ tableNames \in Listings
    /\ tableTags \in [Range(tableNames) -> TagLists]
    /\ tableFuzzyName = EmptyString /\ tagValue = "" /\ fault = NoFault
    /\ matchingTables = NilSlice /\ searchPc = "start"
    /\ IdleScore /\ IdleUpdate /\ IdleCmd /\ IdleRun

\* the process runs one command: main calls run, and run ExecuteSearch, once
ExecuteSearchCall ==
    /\ searchPc = "start"
    /\ \E fuzzyName \in Patterns, value \in TagValues :
        \E f \in Faults(tableNames, fuzzyName, value) :
            /\ tableFuzzyName' = fuzzyName
            /\ tagValue' = value
            /\ fault' = f
            /\ matchingTables' = ExecuteSearch(tableNames, tableTags, fuzzyName, value, f)
            /\ searchPc' = "done"
            /\ UNCHANGED <<tableNames, tableTags, scoreVars, updateVars, cmdVars, runVars>>

NextSearch == ExecuteSearchCall
SpecSearch == InitSearch /\ [][NextSearch]_vars

\* discovery over the three tables "users", "orders", "sessions", listed in
\* any order, with the search terms "usr" and "user"
NameUsr == <<"u", "s", "r">>
NameUser == <<"u", "s", "e", "r">>
NameSessions == <<"s", "e", "s", "s", "i", "o", "n", "s">>
ExampleTables == {NameUsers, NameOrders, NameSessions}
ExampleListings == {l \in [1..Cardinality(ExampleTables) -> ExampleTables] :
                       Range(l) = ExampleTables}
ExamplePatterns == {NameUsr, NameUser}
ExampleTagValues == {"", "prod"}

InitExample ==
    /\ tableNames \in ExampleListings
    /\ tableTags \in [ExampleTables -> TagLists]
    /\ tableFuzzyName = EmptyString /\ tagValue = "" /\ fault = NoFault
    /\ matchingTables = NilSlice /\ searchPc = "start"
    /\ IdleScore /\ IdleUpdate /\ IdleCmd /\ IdleRun

ExampleSearchCall ==
    /\ searchPc = "start"
    /\ \E fuzzyName \in ExamplePatterns, value \in ExampleTagValues :
        \E f \in Faults(tableNames, fuzzyName, value) :
            /\ tableFuzzyName' = fuzzyName
            /\ tagValue' = value
            /\ fault' = f
            /\ matchingTables' = ExecuteSearch(tableNames, tableTags, fuzzyName, value, f)
            /\ searchPc' = "done"
            /\ UNCHANGED <<tableNames, tableTags, scoreVars, updateVars, cmdVars, runVars>>

NextExample == ExampleSearchCall
SpecExample == InitExample /\ [][NextExample]_vars

\* the command line: what the flags --search, --tag, --update, --rcu, --wcu,
\* --provisioned and --ondemand can hold; a flag that is not given is empty
FlagUnitStrs == ParamStrs \cup {<<"x">>, <<"-", "5">>}
FlagSets ==
    [searchTerm : {EmptyString, NameOrder}, tagValue : {"", "prod"},
     updateTable : {"", "orders"},
     rcuValueStr : FlagUnitStrs, wcuValueStr : FlagUnitStrs,
     provisioned : BOOLEAN, onDemand : BOOLEAN]

isValidSearchCommand(f) ==
    (f.searchTerm # EmptyString \/ f.tagValue # "") /\ f.updateTable = ""

isValidUpdateCommand(f) ==
    f.updateTable # "" /\ f.searchTerm = EmptyString /\ f.tagValue = ""

\* checkCommand: the error it returns, "" for nil
checkCommand(f) ==
    IF ~isValidSearchCommand(f) /\ ~isValidUpdateCommand(f)
    THEN "Invalid Search or Valid Command!"
    ELSE IF /\ (f.searchTerm # EmptyString \/ f.tagValue # "")
            /\ (f.rcuValueStr # <<>> \/ f.wcuValueStr # <<>> \/ f.provisioned \/ f.onDemand)
    THEN "search or tag cannot be used together with rcu, wcu, provisioned, ondemand!"
    ELSE IF f.updateTable # "" /\ (f.searchTerm # EmptyString \/ f.tagValue # "")
    THEN "update can't be used together with search or tag!"
    ELSE IF /\ f.updateTable # "" /\ f.rcuValueStr = <<>> /\ f.wcuValueStr = <<>>
            /\ ~f.provisioned /\ ~f.onDemand
    THEN "no rcu or wcu or provisioned or onDemand is provided!"
    ELSE IF /\ f.updateTable # "" /\ f.onDemand
            /\ (f.rcuValueStr # <<>> \/ f.wcuValueStr # <<>>)
    THEN "ondemand model does not support rcu or wcu!"
    ELSE IF f.rcuValueStr # <<>> /\ ParseInt(f.rcuValueStr).err
    THEN "rcuValue"
    ELSE IF f.wcuValueStr # <<>> /\ ParseInt(f.wcuValueStr).err
    THEN "wcuValue"
    ELSE ""

InitCommand ==
    /\ flags \in FlagSets /\ cmdErr = "" /\ cmdPc = "start"
    /\ IdleScore /\ IdleSearch /\ IdleUpdate /\ IdleRun

\* rootCmd.RunE: the flags are read and checkCommand validates them, once
checkCommandCall ==
    /\ cmdPc = "start"
    /\ cmdErr' = checkCommand(flags)
    /\ cmdPc' = "done"
    /\ UNCHANGED <<flags, scoreVars, searchVars, updateVars, runVars>>

NextCommand == checkCommandCall
SpecCommand == InitCommand /\ [][NextCommand]_vars

\* run and main, after initCommand has accepted the command line: an update
\* command meets any table, a search command any listing of tagged tables
Search == "search"
Update == "update"
Actions == {Search, Update, "delete"}

InitRun ==
    /\ flags \in {f \in FlagSets : checkCommand(f) = ""}
    /\ cmdErr = "" /\ cmdPc = "done"
    /\ runAction = "" /\ runErr = "" /\ mainLogged = FALSE /\ runPc = "start"
    /\ IdleScore
    /\ \/ /\ flags.updateTable # ""
          /\ table \in Tables
          /\ updateArgs = NoArgs /\ describeFails = FALSE /\ mutateFails = FALSE
          /\ tableBefore = table
          /\ calls = <<>> /\ updateInputs = <<>> /\ updateErr = "" /\ updateBranch = ""
          /\ updatePc = "start"
          /\ IdleSearch
       \/ /\ flags.updateTable = ""
          /\ tableNames \in Listings
          /\ tableTags \in [Range(tableNames) -> TagLists]
          /\ tableFuzzyName = EmptyString /\ tagValue = "" /\ fault = NoFault
          /\ matchingTables = NilSlice /\ searchPc = "start"
          /\ IdleUpdate

\* run(dbmgr, action): the arguments of the task come from the flags, and
\* what the task returns is not kept
runCall ==
    /\ runPc = "start"
    /\ \E action \in Actions :
        /\ runAction' = action
        /\ runPc' = "returned"
        /\ UNCHANGED <<flags, cmdErr, cmdPc, mainLogged, scoreVars>>
        /\ CASE action = Search ->
                 \E f \in Faults(tableNames, flags.searchTerm, flags.tagValue) :
                     /\ tableFuzzyName' = flags.searchTerm
                     /\ tagValue' = flags.tagValue
                     /\ fault' = f
                     /\ matchingTables' = ExecuteSearch(tableNames, tableTags,
                                              flags.searchTerm, flags.tagValue, f)
                     /\ searchPc' = "done"
                     /\ runErr' = ""
                     /\ UNCHANGED <<tableNames, tableTags, updateVars>>
             [] action = Update ->
                 \E dFails \in BOOLEAN, mFails \in BOOLEAN :
                     LET a == [paramRcu |-> flags.rcuValueStr,
                               paramWcu |-> flags.wcuValueStr,
                               switchToOnDemand |-> flags.onDemand,
                               switchToProvisioned |-> flags.provisioned]
                         out == ExecuteUpdate(table, a, dFails, mFails)
                     IN  /\ updateArgs' = a
                         /\ describeFails' = dFails
                         /\ mutateFails' = mFails
                         /\ tableBefore' = table
                         /\ calls' = out.calls
                         /\ updateBranch' = out.branch
                         /\ updateInputs' = out.inputs
                         /\ updateErr' = out.err
                         /\ table' = out.table
                         /\ updatePc' = "done"
                         /\ runErr' = ""
                         /\ UNCHANGED searchVars
             [] OTHER ->
                 /\ runErr' = "unrecognized action provided"
                 /\ UNCHANGED <<searchVars, updateVars>>

\* main, after run has returned: a failure is logged when err != nil, and
\* the process exits
mainReport ==
    /\ runPc = "returned"
    /\ mainLogged' = (runErr # "")
    /\ runPc' = "exit"
    /\ UNCHANGED <<runAction, runErr, cmdVars, scoreVars, searchVars, updateVars>>

NextRun == runCall \/ mainReport
SpecRun == InitRun /\ [][NextRun]_vars

\* the update, on any table; the table keeps what a successful call sets
InitUpdate ==
    /\ table \in Tables
    /\ updateArgs = NoArgs /\ describeFails = FALSE /\ mutateFails = FALSE
    /\ tableBefore = table
    /\ calls = <<>> /\ updateInputs = <<>> /\ updateErr = "" /\ updateBranch = ""
    /\ updatePc = "start"
    /\ IdleScore /\ IdleSearch /\ IdleCmd /\ IdleRun

ExecuteUpdateCall ==
    \E paramRcu \in ParamStrs, paramWcu \in ParamStrs,
       switchToOnDemand \in BOOLEAN, switchToProvisioned \in BOOLEAN,
       dFails \in BOOLEAN, mFails \in BOOLEAN :
        LET a == [paramRcu |-> paramRcu, paramWcu |-> paramWcu,
                  switchToOnDemand |-> switchToOnDemand,
                  switchToProvisioned |-> switchToProvisioned]
            out == ExecuteUpdate(table, a, dFails, mFails)
        IN  /\ updateArgs' = a
            /\ describeFails' = dFails
            /\ mutateFails' = mFails
            /\ tableBefore' = table
            /\ calls' = out.calls
            /\ updateBranch' = out.branch
            /\ updateInputs' = out.inputs
            /\ updateErr' = out.err
            /\ table' = out.table
            /\ updatePc' = "done"
            /\ UNCHANGED <<scoreVars, searchVars, cmdVars, runVars>>

NextUpdate == ExecuteUpdateCall
SpecUpdate == InitUpdate /\ [][NextUpdate]_vars

(***************************************************************************)
(* Properties of discovery (SpecSearch)                                    *)
(***************************************************************************)
SearchDone == searchPc = "done"
NameOnly   == tableFuzzyName # EmptyString /\ tagValue = ""
TagOnly    == tableFuzzyName = EmptyString /\ tagValue # ""
NameAndTag == tableFuzzyName # EmptyString /\ tagValue # ""

ResultNames == [i \in 1..Len(matchingTables.elems) |-> matchingTables.elems[i].Name]

\* the name predicate: literal substring, or a score of at least 80 of the
\* lower-cased strings
NamePredicate(pattern, name) ==
    \/ Contains(name, pattern)
    \/ NormalizeRatio(FuzzyMatchRatio(ToLower(pattern), ToLower(name))) >= 80

\* the tag predicate: some tag of the table has the value, whatever its key
HasTagValue(name, value) ==
    \E i \in 1..Len(tableTags[name]) : tableTags[name][i].Value = value

EntriesOf(names) == [i \in 1..Len(names) |-> [Name |-> names[i], ARN |-> TableArn(names[i])]]

\* C1: AND semantics. Every table a search by name and tag returns passes
\* the name predicate and carries a tag with the value, also when no
\* candidate passes the name predicate and when the name stage's listing fails.
C1_AndSemantics ==
    (SearchDone /\ NameAndTag) =>
        \A i \in 1..Len(ResultNames) :
            /\ NamePredicate(tableFuzzyName, ResultNames[i])
            /\ HasTagValue(ResultNames[i], tagValue)

\* the page at which the first listing call of the search failed (0: none)
FirstListingFailAt ==
    IF tableFuzzyName # EmptyString THEN fault.nameListFailAt ELSE fault.tagListFailAt

\* the names GetTableList had accumulated when its listing failed
Accumulated == GetTableList(tableNames, FirstListingFailAt).names

\* C7: when the listing fails, the names listed before the failure are not
\* discarded: those that satisfy the search are returned (ExecuteSearch
\* returns the tables alone, so the failure can only travel with them).
C7_PartialResultsWithFailure ==
    (SearchDone /\ FirstListingFailAt > 0) =>
        \A i \in 1..Len(Accumulated) :
            (/\ tableFuzzyName # EmptyString => NamePredicate(tableFuzzyName, Accumulated[i])
             /\ tagValue # "" => HasTagValue(Accumulated[i], tagValue))
            => Accumulated[i] \in Range(ResultNames)

\* C8: a search by name alone returns, in listing order, exactly the
\* candidates that pass the name predicate and whose describe call succeeded.
C8_KeptByName(name) ==
    NamePredicate(tableFuzzyName, name) /\ name \notin fault.arnFailName

C8_NameOnlyExactSubsequence ==
    (SearchDone /\ NameOnly /\ fault.nameListFailAt = 0) =>
        /\ ~matchingTables.nil
        /\ matchingTables.elems = EntriesOf(SelectSeq(tableNames, C8_KeptByName))

\* a describe failure removed one candidate and the loop went on to keep a later one
C8_Witness ==
    /\ SearchDone /\ NameOnly /\ fault.nameListFailAt = 0
    /\ Len(tableNames) >= 2
    /\ tableNames[1] \in fault.arnFailName
    /\ ResultNames = <<tableNames[2]>>
    /\ ~Contains(tableNames[2], tableFuzzyName)

\* C9: a search by tag alone returns, in listing order and once each, exactly
\* the candidates whose describe and tag calls succeeded and that have a tag
\* with the value.
C9_KeptByTag(name) ==
    /\ name \notin fault.arnFailTag
    /\ name \notin fault.tagFail
    /\ HasTagValue(name, tagValue)

C9_TagOnlyExactSubsequence ==
    (SearchDone /\ TagOnly /\ fault.tagListFailAt = 0) =>
        matchingTables.elems = EntriesOf(SelectSeq(tableNames, C9_KeptByTag))

\* the first candidate's tag call failed, the second has two tags with the
\* value and is returned once
C9_Witness ==
    /\ SearchDone /\ TagOnly /\ fault.tagListFailAt = 0
    /\ Len(tableNames) >= 2
    /\ tableNames[1] \in fault.tagFail
    /\ HasTagValue(tableNames[1], tagValue)
    /\ Cardinality({i \in 1..Len(tableTags[tableNames[2]]) :
                       tableTags[tableNames[2]][i].Value = tagValue}) = 2
    /\ ResultNames = <<tableNames[2]>>

(***************************************************************************)
(* Properties of the update (SpecUpdate)                                   *)
(***************************************************************************)
UpdateDone == updatePc = "done"

Describe      == "GetCurrentBillingMode"
MutatingCalls == {"SwitchToOnDemandCapacity", "UpdateProvisionedCapacity"}

CallsOf(fns) == {i \in 1..Len(calls) : calls[i] \in fns}

\* the requested units as integers, a blank one being the default 5
ResolvedRcu == IF updateArgs.paramRcu = <<>> THEN 5 ELSE ParseInt(updateArgs.paramRcu).val
ResolvedWcu == IF updateArgs.paramWcu = <<>> THEN 5 ELSE ParseInt(updateArgs.paramWcu).val

ExplicitUnits == updateArgs.paramRcu # <<>> \/ updateArgs.paramWcu # <<>>

\* C2: describe is called exactly once and before any mutating call, at most
\* one mutating call is made, and a call that ends in a no-op return made
\* none and returns nil.
C2_CallDiscipline ==
    UpdateDone =>
        /\ Len(calls) >= 1 /\ calls[1] = Describe
        /\ CallsOf({Describe}) = {1}
        /\ Cardinality(CallsOf(MutatingCalls)) <= 1
        /\ Len(updateInputs) = Cardinality(CallsOf(MutatingCalls))
        /\ updateBranch \in {"already on-demand", "same units"} =>
              (CallsOf(MutatingCalls) = {} /\ updateErr = "")

\* a mutating call was made after the describe, and it failed
C2_Witness ==
    /\ UpdateDone
    /\ calls = <<Describe, "SwitchToOnDemandCapacity">>
    /\ mutateFails /\ updateErr # ""

\* C3: with explicit units and no on-demand request, the call is a no-op
\* exactly when the table is PROVISIONED with the resolved units, compared
\* as integers; otherwise one UpdateProvisionedCapacity carries those units.
C3_ExplicitUnits ==
    (/\ UpdateDone /\ ~describeFails
     /\ ~updateArgs.switchToOnDemand /\ ExplicitUnits
     /\ (tableBefore.mode = Provisioned \/ updateArgs.switchToProvisioned)) =>
        IF /\ tableBefore.mode = Provisioned
           /\ ResolvedRcu = tableBefore.rcu /\ ResolvedWcu = tableBefore.wcu
        THEN calls = <<Describe>> /\ updateErr = ""
        ELSE /\ calls = <<Describe, "UpdateProvisionedCapacity">>
             /\ updateInputs[1].ReadCapacityUnits = ResolvedRcu
             /\ updateInputs[1].WriteCapacityUnits = ResolvedWcu

\* C4: an on-demand request makes a mutating call exactly when the table is
\* not on-demand: one SwitchToOnDemandCapacity, never UpdateProvisionedCapacity.
C4_OnDemandRequest ==
    (UpdateDone /\ ~describeFails /\ updateArgs.switchToOnDemand) =>
        IF tableBefore.mode = PayPerRequest
        THEN calls = <<Describe>> /\ updateErr = "" /\ table = tableBefore
        ELSE /\ calls = <<Describe, "SwitchToOnDemandCapacity">>
             /\ updateInputs = <<[BillingMode |-> PayPerRequest,
                                  ReadCapacityUnits |-> 0, WriteCapacityUnits |-> 0]>>

\* a PROVISIONED table was switched to on-demand
C4_Witness ==
    /\ UpdateDone /\ ~describeFails /\ updateArgs.switchToOnDemand
    /\ tableBefore.mode = Provisioned
    /\ calls = <<Describe, "SwitchToOnDemandCapacity">>
    /\ updateErr = "" /\ table.mode = PayPerRequest

\* the call returned the error of line 429: the billing mode does not support
\* a change of rcu or wcu
PreconditionError == updateBranch = "not provisioned"

\* C5: units requested for an on-demand table without either switch are an
\* error and no mutating call; and that error is never returned for a table
\* that is PROVISIONED.
C5_PreconditionError ==
    UpdateDone =>
        /\ (/\ ~describeFails /\ tableBefore.mode = PayPerRequest
            /\ ~updateArgs.switchToOnDemand /\ ~updateArgs.switchToProvisioned
            /\ ExplicitUnits)
           => (updateErr # "" /\ CallsOf(MutatingCalls) = {})
        /\ (PreconditionError /\ ExplicitUnits) => tableBefore.mode # Provisioned

\* C6: a PROVISIONED request without units makes one UpdateProvisionedCapacity
\* to PROVISIONED, with the table's current units if it has them, else 5.
C6_ProvisionedWithoutUnits ==
    (/\ UpdateDone /\ ~describeFails
     /\ ~updateArgs.switchToOnDemand /\ updateArgs.switchToProvisioned
     /\ ~ExplicitUnits) =>
        /\ calls = <<Describe, "UpdateProvisionedCapacity">>
        /\ updateInputs[1].BillingMode = Provisioned
        /\ updateInputs[1].ReadCapacityUnits =
              (IF tableBefore.mode = Provisioned THEN tableBefore.rcu ELSE 5)
        /\ updateInputs[1].WriteCapacityUnits =
              (IF tableBefore.mode = Provisioned THEN tableBefore.wcu ELSE 5)

(***************************************************************************)
(* Properties of the similarity scorer (SpecScore)                         *)
(***************************************************************************)
UnitCost == [InsCost |-> 1, DelCost |-> 1, SubCost |-> 1]

\* C10: the score is in 0..100 and is floor((maxLen - distance) * 100 / maxLen),
\* distance being the unit-cost edit distance and maxLen the larger length in
\* code points; 100 for two empty strings.
C10_ScoreFormula ==
    scorePc # "start" =>
        LET distance == DistanceForStrings(str1, str2, UnitCost)
            maxLen   == Max(RuneLen(str1), RuneLen(str2))
        IN  /\ ratio \in 0..100
            /\ ratio = IF maxLen = 0 THEN 100
                       ELSE ((maxLen - distance) * 100) \div maxLen

\* C11 (as stated): a name-only search for "usr" over "users", "orders",
\* "sessions", every listing and describe call succeeding, returns "users".
C11_UsrReturnsUsers ==
    (SearchDone /\ tableFuzzyName = NameUsr /\ tagValue = "" /\ fault = NoFault)
        => NameUsers \in Range(ResultNames)

\* C11 (amended): that search returns no table at all -- an empty, non-nil
\* result: "usr" is not a substring of "users", and "users" scores 60, both
\* with the code's scorer and with unit-cost edit distance over code points,
\* which is below the threshold 80.
C11_UsrReturnsNothing ==
    (SearchDone /\ tableFuzzyName = NameUsr /\ tagValue = "" /\ fault = NoFault)
        => /\ matchingTables = Slice(<<>>)
           /\ ~Contains(NameUsers, NameUsr)
           /\ NormalizeRatio(FuzzyMatchRatio(NameUsr, NameUsers)) = 60
           /\ GoDiv((RuneLen(NameUsers)
                      - DistanceForStrings(NameUsr, NameUsers, UnitCost)) * 100,
                    RuneLen(NameUsers)) = 60

C11_Witness ==
    /\ SearchDone /\ tableFuzzyName = NameUsr /\ tagValue = "" /\ fault = NoFault
    /\ tableNames = <<NameUsers, NameOrders, NameSessions>>
    /\ matchingTables = Slice(<<>>)

CommandDone == cmdPc = "done"
Accepted(f) == checkCommand(f) = ""

\* the two validated intents, and the two operative forms of an update
DiscoveryIntent(f) ==
    /\ (f.searchTerm # EmptyString \/ f.tagValue # "")
    /\ f.updateTable = "" /\ f.rcuValueStr = <<>> /\ f.wcuValueStr = <<>>
    /\ ~f.provisioned /\ ~f.onDemand
SwitchToOnDemandForm(f) == f.onDemand
ProvisionedOrUnitsForm(f) ==
    f.provisioned \/ f.rcuValueStr # <<>> \/ f.wcuValueStr # <<>>
UpdateIntent(f) ==
    /\ f.updateTable # "" /\ f.searchTerm = EmptyString /\ f.tagValue = ""
    /\ SwitchToOnDemandForm(f) # ProvisionedOrUnitsForm(f)

\* C12: every flag combination checkCommand accepts is exactly one validated
\* intent -- discovery, or an update in which exactly one of `switch to
\* on-demand' and `provisioned or explicit units' is operative, so that
\* ondemand is accepted neither with rcu/wcu nor with provisioned -- and
\* every rcu/wcu it is given parses as an integer.
C12_ExactlyOneIntent ==
    (CommandDone /\ cmdErr = "") =>
        /\ DiscoveryIntent(flags) # UpdateIntent(flags)
        /\ ~(flags.onDemand /\ (flags.rcuValueStr # <<>> \/ flags.wcuValueStr # <<>>))
        /\ ~(flags.onDemand /\ flags.provisioned)
        /\ flags.rcuValueStr # <<>> => ~ParseInt(flags.rcuValueStr).err
        /\ flags.wcuValueStr # <<>> => ~ParseInt(flags.wcuValueStr).err

\* the mutating call of the last ExecuteUpdate was refused by the repository
MutationFailed ==
    /\ CallsOf(MutatingCalls) # {}
    /\ UpdateTable(tableBefore, updateInputs[1], mutateFails).err

\* C13: every failure is fatal and nothing is tried again: when describe
\* fails, ExecuteUpdate returns an error having made no mutating call; when
\* its mutating call fails, it returns that error and the failed call is the
\* last repository call, the second of two.
C13_FailuresAreFatal ==
    UpdateDone =>
        /\ describeFails =>
              (updateErr # "" /\ calls = <<Describe>> /\ table = tableBefore)
        /\ MutationFailed =>
              /\ updateErr = "UpdateTable failed"
              /\ Len(calls) = 2 /\ calls[1] = Describe /\ calls[2] \in MutatingCalls
              /\ Len(updateInputs) = 1
              /\ table = tableBefore

C13_Witness ==
    /\ UpdateDone /\ ~describeFails /\ MutationFailed
    /\ calls = <<Describe, "UpdateProvisionedCapacity">>
    /\ updateErr # ""

\* C14: run returns an error when the task it executes fails: whenever
\* ExecuteUpdateTask returned an error, run returns a non-nil error, and main
\* logs the update as failed.
C14_RunReturnsUpdateError ==
    (runAction = Update /\ updateErr # "") =>
        /\ runPc = "returned" => runErr # ""
        /\ runPc = "exit" => mainLogged

\* the command line that leads to the last ExecuteUpdate
UpdateFlags ==
    [NoFlags EXCEPT !.updateTable = "orders",
                    !.rcuValueStr = updateArgs.paramRcu,
                    !.wcuValueStr = updateArgs.paramWcu,
                    !.provisioned = updateArgs.switchToProvisioned,
                    !.onDemand = updateArgs.switchToOnDemand]

\* the requested configuration, resolved, is the one the table has: on-demand
\* for an on-demand request, else PROVISIONED with the units after defaulting
RequestedIsCurrent ==
    IF updateArgs.switchToOnDemand
    THEN tableBefore.mode = PayPerRequest
    ELSE /\ tableBefore.mode = Provisioned
         /\ ResolvedRcu = tableBefore.rcu /\ ResolvedWcu = tableBefore.wcu

\* C15: no redundant mutation: for every table and every intent that
\* validation accepts, ExecuteUpdate makes a mutating call only when the
\* requested configuration differs from the current one; when they are
\* equal it makes none, on any branch.
C15_NoRedundantMutation ==
    (UpdateDone /\ Accepted(UpdateFlags) /\ RequestedIsCurrent) =>
        CallsOf(MutatingCalls) = {}
====
